---- MODULE Spec2Model ----
(***************************************************************************)
(* Attendance preprocessing (src/src/preprocessing.py, src/src/helper.py): *)
(* the temporal feature engine, the anomaly gate and the low-attendance    *)
(* filter, as operators on tables.  A table is a sequence of rows, a row a *)
(* record whose fields are the DataFrame's columns plus "index", the row's *)
(* index label.  Dates are day numbers (day 0 is a Monday), a timestamp is *)
(* the number of seconds since midnight of the row's day.                  *)
(***************************************************************************)
EXTENDS Integers, Sequences, FiniteSets, TLC

VARIABLES raw, prev, df, hist, arg, raw2, df2

vars == <<raw, prev, df, hist, arg, raw2, df2>>

(* ------------------------------ values -------------------------------- *)

\* A missing timestamp (NaT) and a missing number (NaN).
NaT == -1
NaN == -1
\* A raw check-in string that no timestamp format parses.
Malformed == -2
\* A missing note (None / NaN in an object column).
NoteNA == "<NA>"

late_labels == {"Telat", "telat", "Late", "late"}
absent_labels == {"Alpa", "alpa", "Absent", "absent", "ALPA"}
holiday_labels == {"Libur", "libur", "Holiday"}

Window7 == 7
Window30 == 30

\* pd.to_datetime(x, errors='coerce') on one value: a parseable time or a
\* Timestamp is the Timestamp, anything else (missing, malformed) is NaT.
ToDatetime(v) == IF v >= 0 THEN v ELSE NaT

Hour(ts) == ts \div 3600
Minute(ts) == (ts % 3600) \div 60

\* helper._to_minutes on a value of a datetime column.
_to_minutes(dt) == IF dt = NaT THEN NaN ELSE Hour(dt) * 60 + Minute(dt)

\* Timestamp.dayofweek: Monday is 0.
DayOfWeek(date) == date % 7

(* ------------------------------ tables -------------------------------- *)

Range(s) == {s[i] : i \in DOMAIN s}

\* df[c] = values, row-wise: the columns of s are added to (or replace) r's.
AssignCols(r, s) ==
    [k \in (DOMAIN r) \cup (DOMAIN s) |-> IF k \in DOMAIN s THEN s[k] ELSE r[k]]

DropCols(r, cs) == [k \in (DOMAIN r) \ cs |-> r[k]]

Columns(t) == IF t = <<>> THEN {} ELSE DOMAIN t[1]

\* reset_index(drop=True) / ignore_index=True: labels 0..n-1 in row order.
ResetIndex(t) == [i \in DOMAIN t |-> AssignCols(t[i], [index |-> i - 1])]

ByTagDate(a, b) ==
    \/ a.rfid_tag < b.rfid_tag
    \/ a.rfid_tag = b.rfid_tag /\ a.date < b.date

ByIdDesc(a, b) == a.id > b.id

(* ----------------------- the feature engine --------------------------- *)

\* LabelHadir without the guard on the note: every check-in is 'hadir'.
LabelHadirAnyNote(r) ==
    IF r.checkin_time # NaT THEN [r EXCEPT !.note = "hadir"] ELSE r

\* preprocessing.py 115-120: the two masks, applied one after the other.
LabelHadir(r) ==
    IF r.checkin_time # NaT /\ (r.note = NoteNA \/ r.note = "")
    THEN [r EXCEPT !.note = "hadir"] ELSE r

LabelAlpa(r) ==
    IF r.checkin_time = NaT /\ (r.note = NoteNA \/ r.note = "")
    THEN [r EXCEPT !.note = "alpa"] ELSE r

\* preprocessing.py 110-113: the datetime conversions.
ConvertTimes(r) ==
    [r EXCEPT !.checkin_time = ToDatetime(r.checkin_time),
              !.checkout_time = ToDatetime(r.checkout_time)]

\* Flags with a holiday counted as an absence.
FlagsHolidayAbsent(r) ==
    AssignCols(r, [is_late |-> IF r.note \in late_labels THEN 1 ELSE 0,
                   is_absent |-> IF r.note \in absent_labels \cup holiday_labels
                                 THEN 1 ELSE 0,
                   _arrival_min |-> _to_minutes(r.checkin_time)])

\* preprocessing.py 125-127.
Flags(r) ==
    AssignCols(r, [is_late |-> IF r.note \in late_labels THEN 1 ELSE 0,
                   is_absent |-> IF r.note \in absent_labels THEN 1 ELSE 0,
                   _arrival_min |-> _to_minutes(r.checkin_time)])

\* g['note'].shift(1).fillna('alpa').replace('libur', 'alpa')
Lag1Status(g, i) ==
    LET shifted == IF i = 1 THEN NoteNA ELSE g[i - 1].note
        filled == IF shifted = NoteNA THEN "alpa" ELSE shifted
    IN  IF filled = "libur" THEN "alpa" ELSE filled

\* WindowStart with the left endpoint open, as rolling() closes by default.
RECURSIVE WindowStartOpenLeft(_, _, _)
WindowStartOpenLeft(g, window, i) ==
    IF i = 1 THEN 1
    ELSE LET start_bound == g[i].date - window
             from == WindowStartOpenLeft(g, window, i - 1)
             hits == {j \in from..(i - 1) : g[j].date - start_bound > 0}
         IN  IF hits = {} THEN i
             ELSE CHOOSE j \in hits : \A k \in hits : j <= k

\* rolling(window, closed='left') on the date index: the first row of the
\* window of row i, found as pandas' variable-window indexer finds it, from
\* the previous row's window start.
RECURSIVE WindowStart(_, _, _)
WindowStart(g, window, i) ==
    IF i = 1 THEN 1
    ELSE LET start_bound == g[i].date - window - 1
             from == WindowStart(g, window, i - 1)
             hits == {j \in from..(i - 1) : g[j].date - start_bound > 0}
         IN  IF hits = {} THEN i
             ELSE CHOOSE j \in hits : \A k \in hits : j <= k

\* WindowEnd with the right endpoint closed: the row's own date is inside.
WindowEndClosedRight(g, i) == i + 1

\* The window's end (exclusive): the right endpoint is open.
WindowEnd(g, i) == i

WindowRows(g, window, i) == WindowStart(g, window, i)..(WindowEnd(g, i) - 1)

RECURSIVE SumOver(_, _, _)
SumOver(g, js, col) ==
    IF js = {} THEN 0
    ELSE LET j == CHOOSE x \in js : TRUE
         IN  g[j][col] + SumOver(g, js \ {j}, col)

\* .rolling(..).sum().fillna(0).astype(int): an empty window gives NaN, then 0.
RollingCount(g, window, i, col) ==
    LET js == WindowRows(g, window, i)
    IN  IF js = {} THEN 0 ELSE SumOver(g, js, col)

RECURSIVE Gcd(_, _)
Gcd(a, b) == IF b = 0 THEN a ELSE Gcd(b, a % b)

\* A mean, as the fraction num/den in lowest terms.
Mean(sum, n) == LET d == Gcd(sum, n) IN [num |-> sum \div d, den |-> n \div d]

\* .rolling('7d', closed='left').mean().fillna(0): NaN arrivals are skipped;
\* a window without any arrival gives NaN, then 0.
RollingMean(g, window, i, col) ==
    LET js == {j \in WindowRows(g, window, i) : g[j][col] # NaN}
    IN  IF js = {} THEN [num |-> 0, den |-> 1]
        ELSE Mean(SumOver(g, js, col), Cardinality(js))

\* preprocessing.py 150-154.
streak_mask(g, i) == g[i].is_late = 1

streak_group(g, i) == Cardinality({j \in 1..i : ~streak_mask(g, j)})

CumCount(g, i) ==
    Cardinality({j \in 1..(i - 1) : streak_group(g, j) = streak_group(g, i)})

streak_current(g, i) == IF streak_mask(g, i) THEN CumCount(g, i) ELSE 0

StreakTelat(g, i) == IF i = 1 THEN 0 ELSE streak_current(g, i - 1)

\* preprocessing.py 132-156: one group, in date order.
GroupFeatures(g) ==
    [i \in DOMAIN g |->
        AssignCols(g[i],
            [Lag_1_Status |-> Lag1Status(g, i),
             Count_Telat_7D |-> RollingCount(g, Window7, i, "is_late"),
             Count_Alpa_30D |-> RollingCount(g, Window30, i, "is_absent"),
             Avg_Arrival_Time_7D |-> RollingMean(g, Window7, i, "_arrival_min"),
             Streak_Telat |-> StreakTelat(g, i)])]

\* groupby('rfid_tag', sort=False) over the sorted table and pd.concat: the
\* groups in order of first appearance.
RECURSIVE GroupApply(_)
GroupApply(t) ==
    IF t = <<>> THEN <<>>
    ELSE LET tag == t[1].rfid_tag
             g == SelectSeq(t, LAMBDA r : r.rfid_tag = tag)
             rest == SelectSeq(t, LAMBDA r : r.rfid_tag # tag)
         IN  GroupFeatures(g) \o GroupApply(rest)

\* IsHolidayRow that also drops the absent rows from the output.
IsHolidayOrAbsentRow(r) == r.note \in holiday_labels \cup absent_labels

\* preprocessing.py 167.
IsHolidayRow(r) == r.note \in holiday_labels

\* preprocessing.py 93-175.
add_temporal_and_lag_features(t) ==
    LET converted == [i \in DOMAIN t |-> ConvertTimes(t[i])]
        hadir == [i \in DOMAIN t |-> LabelHadir(converted[i])]
        labeled == [i \in DOMAIN t |-> LabelAlpa(hadir[i])]
        sorted == SortSeq(labeled, ByTagDate)
        flagged == [i \in DOMAIN sorted |-> Flags(sorted[i])]
        result0 == ResetIndex(GroupApply(flagged))
        result == [i \in DOMAIN result0 |->
                     AssignCols(result0[i], [DayOfWeek |-> DayOfWeek(result0[i].date)])]
        kept == SelectSeq(result, LAMBDA r : ~IsHolidayRow(r))
        cleaned == [i \in DOMAIN kept |->
                     DropCols(kept[i], {"_arrival_min", "is_late", "is_absent"})]
    IN  ResetIndex(SortSeq(cleaned, ByIdDesc))

(* -------------------------- the anomaly gate -------------------------- *)

\* A fraction in lowest terms (0 as 0/1).
Frac(n, d) == LET g == Gcd(IF n < 0 THEN -n ELSE n, d) IN [num |-> n \div g, den |-> d \div g]

\* A missing value of a fractional column, and fillna(0) on such a value.
NaNFrac == [num |-> 0, den |-> 0]

FillNa0(v) == IF v = NaNFrac THEN Frac(0, 1) ELSE v

\* preprocessing.py 31-42: the scoring copy, with its two scoring columns.
IsoRow(r) ==
    LET checkin == ToDatetime(r.checkin_time)
        checkout == ToDatetime(r.checkout_time)
        temp_checkout == IF checkout = NaT THEN checkin ELSE checkout
    IN  AssignCols(r,
            [checkin_time |-> checkin,
             checkout_time |-> checkout,
             _duration_hours |-> IF checkin = NaT THEN NaNFrac
                                ELSE Frac(temp_checkout - checkin, 3600),
             _arrival_hour |-> IF checkin = NaT THEN NaNFrac
                              ELSE Frac(Hour(checkin) * 60 + Minute(checkin), 60)])

\* preprocessing.py 45-55.
anomaly_features(t) ==
    {"_duration_hours", "_arrival_hour"}
        \cup (Columns(t) \cap {"Count_Telat_7D", "Count_Alpa_30D", "Streak_Telat",
                               "Avg_Arrival_Time_7D"})

\* preprocessing.py 58-59: the scored rows, under their index labels.
X_iso(t) ==
    LET df_iso == [i \in DOMAIN t |-> IsoRow(t[i])]
        valid == SelectSeq(df_iso, LAMBDA r : r.checkin_time # NaT)
        cols == anomaly_features(t) \cup {"index"}
    IN  [i \in DOMAIN valid |->
            [c \in cols |->
                IF c \in {"_duration_hours", "_arrival_hour"}
                THEN FillNa0(valid[i][c]) ELSE valid[i][c]]]

\* The labelings fit_predict can return for the scored rows: -1 is anomalous.
Labelings(t) == [DOMAIN X_iso(t) -> {-1, 1}]

\* apply_anomaly_detection that drops the labeled rows from the scoring copy.
apply_anomaly_detection_on_copy(t, preds) ==
    LET X == X_iso(t)
        anom_indices == {X[i].index : i \in {j \in DOMAIN X : preds[j] = -1}}
        df_iso == [i \in DOMAIN t |-> IsoRow(t[i])]
    IN  IF Len(X) > 0
        THEN SelectSeq(df_iso, LAMBDA r : r.index \notin anom_indices)
        ELSE t

\* preprocessing.py 61-91, with the model's labels preds.
apply_anomaly_detection(t, preds) ==
    LET X == X_iso(t)
        anom_indices == {X[i].index : i \in {j \in DOMAIN X : preds[j] = -1}}
        dropped == SelectSeq(t, LAMBDA r : r.index \notin anom_indices)
    IN  IF Len(X) > 0
        THEN [i \in DOMAIN dropped |->
                 DropCols(dropped[i], {"_duration_hours", "_arrival_hour"})]
        ELSE t

(* ---------------------- the low-attendance filter --------------------- *)

\* n/d rounded to an integer, halves to the even one (numpy's round).
RoundHalfEven(n, d) ==
    LET q == n \div d
        rem == n % d
    IN  IF 2 * rem < d THEN q
        ELSE IF 2 * rem > d THEN q + 1
        ELSE IF q % 2 = 0 THEN q ELSE q + 1

total_records(t, tag) == Cardinality({i \in DOMAIN t : t[i].rfid_tag = tag})

total_hadir(t, tag) ==
    Cardinality({i \in DOMAIN t : t[i].rfid_tag = tag /\ t[i].checkin_time # NaT})

\* preprocessing.py 208: the rounded percentage, in hundredths of a percent.
pct_hadir(t, tag) == RoundHalfEven(total_hadir(t, tag) * 10000, total_records(t, tag))

\* preprocessing.py 212; the threshold is in thousandths of a percent.
normal_students(t, threshold) ==
    {tag \in {r.rfid_tag : r \in Range(t)} : pct_hadir(t, tag) * 10 >= threshold}

\* preprocessing.py 178-230.
remove_low_attendance_students(t, threshold) ==
    SelectSeq(t, LAMBDA r : r.rfid_tag \in normal_students(t, threshold))

(* ------------------------------ inputs -------------------------------- *)

MaxEvents == 3

Tags == {101, 102}
Dates == {0, 1, 8, 31}
\* One event per tag and date; the second tag's record ends on day 8.
Slots == (Tags \X Dates) \ {<<102, 31>>}

\* What one event of a log can carry: note, check-in and check-out.
EventKinds ==
    { [note |-> NoteNA,    checkin_time |-> 7 * 3600 + 30, checkout_time |-> 15 * 3600],
      [note |-> "",        checkin_time |-> Malformed,     checkout_time |-> NaT],
      [note |-> NoteNA,    checkin_time |-> NaT,           checkout_time |-> NaT],
      [note |-> "telat",   checkin_time |-> 7 * 3600 + 45 * 60, checkout_time |-> NaT],
      [note |-> "libur",   checkin_time |-> NaT,           checkout_time |-> NaT],
      [note |-> "Libur",   checkin_time |-> 7 * 3600 + 30, checkout_time |-> NaT],
      [note |-> "holiday", checkin_time |-> NaT,           checkout_time |-> NaT] }

\* The record id of the event of a tag on a date: the log is written day by
\* day, so ids follow the date first and the tag second.
IdOf(slot) == slot[2] * 1000 + slot[1]

EventRow(slot, kind) ==
    [index |-> 0, id |-> IdOf(slot), rfid_tag |-> slot[1], date |-> slot[2],
     checkin_time |-> kind.checkin_time, checkout_time |-> kind.checkout_time,
     note |-> kind.note]

ById(a, b) == a.id < b.id

RECURSIVE SetToSeq(_)
SetToSeq(S) ==
    IF S = {} THEN <<>>
    ELSE LET x == CHOOSE y \in S : TRUE IN <<x>> \o SetToSeq(S \ {x})

\* The table holding a set of rows, as the raw log is written.
LogOf(rows) == ResetIndex(SortSeq(SetToSeq(rows), ById))

\* The raw log holding the events f (slot -> kind), at most one per tag and
\* date, in id order with a RangeIndex.
MkLog(f) == LogOf({EventRow(s, f[s]) : s \in DOMAIN f})

At(x, slot) == x.rfid_tag = slot[1] /\ x.date = slot[2]

\* The log t with the event of a slot set to a kind, and without it.
WithEvent(t, slot, kind) ==
    LogOf({x \in Range(t) : ~At(x, slot)} \cup {EventRow(slot, kind)})

WithoutEvent(t, slot) == LogOf({x \in Range(t) : ~At(x, slot)})

\* The logs of the runs that are compared with a second run.
MaxPairEvents == 3

PairSlots == ({101} \X Dates) \cup {<<102, 1>>}

PairKinds ==
    {k \in EventKinds :
        \/ k.note \in {"telat", "libur", "Libur"}
        \/ k.note = NoteNA}

(* ------------------------- what the claims say ------------------------ *)

Once == hist = <<"features">>
Twice == hist = <<"features", "features">>

FeatureCols ==
    {"Lag_1_Status", "Count_Telat_7D", "Count_Alpa_30D", "Avg_Arrival_Time_7D",
     "Streak_Telat", "DayOfWeek"}

\* The status an input event stands for: its explicit note, or present /
\* absent by its check-in when it has none.
CanonicalNote(x) ==
    IF x.note = NoteNA \/ x.note = ""
    THEN (IF ToDatetime(x.checkin_time) # NaT THEN "hadir" ELSE "alpa")
    ELSE x.note

IsLateEvent(x) == CanonicalNote(x) \in late_labels
IsAbsentEvent(x) == CanonicalNote(x) \in absent_labels

\* Lower case, on the status vocabulary.
Lower(s) ==
    CASE s = "Libur" -> "libur"
      [] s = "Holiday" -> "holiday"
      [] s = "Telat" -> "telat"
      [] s = "Late" -> "late"
      [] s \in {"Alpa", "ALPA"} -> "alpa"
      [] s = "Absent" -> "absent"
      [] OTHER -> s

IsHolidayStatus(s) == Lower(s) \in {"libur", "holiday"}

\* The events of row r's entity in table t on earlier dates, and the last one.
Prior(t, r) == {x \in Range(t) : x.rfid_tag = r.rfid_tag /\ x.date < r.date}

IsLast(t, r, p) == p \in Prior(t, r) /\ \A y \in Prior(t, r) : y.date <= p.date

InWindow(x, r, days) == r.date - days <= x.date /\ x.date < r.date

\* The late events of r's entity that end right before r with no other
\* event between them and r.
LateRun(t, r) ==
    {x \in Prior(t, r) :
        \A y \in Prior(t, r) : y.date >= x.date => IsLateEvent(y)}

\* C2: after one run, every output row's Count_Telat_7D is the number of late
\* events of its entity dated in [d - 7, d) and its Count_Alpa_30D the number
\* of absent events of its entity dated in [d - 30, d), in calendar days.
C2_CalendarWindowCounts ==
    Once =>
        \A r \in Range(df) :
            /\ r.Count_Telat_7D =
                 Cardinality({x \in Prior(raw, r) : IsLateEvent(x) /\ InWindow(x, r, 7)})
            /\ r.Count_Alpa_30D =
                 Cardinality({x \in Prior(raw, r) : IsAbsentEvent(x) /\ InWindow(x, r, 30)})

\* A row with two earlier late events, 7 and 8 days back: only the one 7 days
\* back is counted.
C2_Witness ==
    /\ Once
    /\ \E r \in Range(df) :
          /\ r.Count_Telat_7D = 1
          /\ \E x, y \in Prior(raw, r) :
                /\ IsLateEvent(x) /\ x.date = r.date - 7
                /\ IsLateEvent(y) /\ y.date = r.date - 8

\* C3: after one run, every output row's Streak_Telat is the number of
\* consecutive late events immediately preceding it in its entity.
C3_StreakIsPrecedingLateRun ==
    Once => \A r \in Range(df) : r.Streak_Telat = Cardinality(LateRun(raw, r))

\* C4: after one run, every output row's Lag_1_Status is the status of the
\* entity's preceding event, or 'alpa' when there is none or it is a holiday
\* ('libur', 'Libur', 'Holiday').
C4_Lag1Status ==
    Once =>
        \A r \in Range(df) :
            /\ Prior(raw, r) = {} => r.Lag_1_Status = "alpa"
            /\ \A p \in Prior(raw, r) :
                   IsLast(raw, r, p) =>
                       r.Lag_1_Status =
                           IF CanonicalNote(p) \in holiday_labels THEN "alpa"
                           ELSE CanonicalNote(p)

\* C5: after one run, no output row has a holiday status, whatever the case
\* of its letters, and every other input row is in the output.
C5_HolidayExclusion ==
    Once =>
        /\ \A r \in Range(df) : ~IsHolidayStatus(r.note)
        /\ \A x \in Range(raw) :
               ~IsHolidayStatus(CanonicalNote(x)) => \E r \in Range(df) : r.id = x.id

\* C6: after one run, an output row's note is 'hadir' when its event had a
\* check-in and no note, 'alpa' when it had neither, and its explicit note
\* otherwise; the features of the rows after it read the labeled note.
C6_StatusLabeling ==
    Once =>
        \A r \in Range(df) :
            /\ \A x \in Range(raw) : x.id = r.id => r.note = CanonicalNote(x)
            /\ \A p \in Prior(raw, r) :
                   /\ IsLast(raw, r, p) /\ CanonicalNote(p) \notin holiday_labels
                        => r.Lag_1_Status = CanonicalNote(p)
                   /\ IsLast(raw, r, p) /\ InWindow(p, r, 30)
                        /\ p.note \in {NoteNA, ""} /\ ToDatetime(p.checkin_time) = NaT
                        => r.Count_Alpa_30D >= 1

\* A late event with a check-in keeps its note, next to an event labeled
\* 'hadir' and one labeled 'alpa' that the next row counts as absent.
C6_Witness ==
    /\ Once
    /\ \E r \in Range(df) : r.note = "telat" /\ r.checkin_time # NaT
    /\ \E r \in Range(df) : \E x \in Range(raw) :
          x.id = r.id /\ x.note = NoteNA /\ r.note = "hadir"
    /\ \E r \in Range(df) : \E p \in Prior(raw, r) :
          /\ p.note = "" /\ r.Lag_1_Status = "alpa" /\ r.Count_Alpa_30D = 1

\* C9 as stated: after a second run on the first run's output, every row's
\* feature columns are what the first run computed.
C9_Idempotence ==
    Twice =>
        \A r \in Range(df) : \A p \in Range(prev) :
            p.id = r.id => \A c \in FeatureCols : r[c] = p[c]

NoHolidayEvent(t) == \A x \in Range(t) : x.note \notin holiday_labels

\* C9 amended: the second run keeps every row, its counts and its DayOfWeek;
\* it keeps every feature column when the log held no holiday event.
C9_IdempotenceWithoutHolidays ==
    Twice =>
        /\ {r.id : r \in Range(df)} = {p.id : p \in Range(prev)}
        /\ \A r \in Range(df) : \A p \in Range(prev) :
              p.id = r.id =>
                  /\ \A c \in {"Count_Telat_7D", "Count_Alpa_30D", "DayOfWeek"} :
                         r[c] = p[c]
                  /\ NoHolidayEvent(raw) => \A c \in FeatureCols : r[c] = p[c]

\* A second run on a log of three events of one entity without a holiday,
\* the last with a late streak and an absent count behind it.
C9_Witness ==
    /\ Twice
    /\ NoHolidayEvent(raw)
    /\ \E r \in Range(df) :
          r.Streak_Telat >= 1 /\ r.Count_Alpa_30D >= 1 /\ r.Lag_1_Status = "telat"

HistoricalCols ==
    {"Lag_1_Status", "Count_Telat_7D", "Count_Alpa_30D", "Avg_Arrival_Time_7D",
     "Streak_Telat"}

\* An event, apart from the place of its row in the table.
Ev(x) == DropCols(x, {"index"})

SamePrior(r, r2) == {Ev(x) : x \in Prior(raw, r)} = {Ev(x) : x \in Prior(raw2, r2)}

\* C1: a row that is in the output of both runs, on two logs that hold the
\* same events of its entity on earlier dates, has the same historical
\* features in both.
C1_NoLeakage ==
    hist = <<"perturbed">> =>
        \A r \in Range(df) : \A r2 \in Range(df2) :
            r.id = r2.id /\ SamePrior(r, r2) =>
                \A c \in HistoricalCols : r[c] = r2[c]

\* Runs that differ in the status of a row that has a late and an absent
\* event behind it, and runs that differ in an event after such a row.
C1_Witness ==
    /\ hist = <<"perturbed">>
    /\ \E r \in Range(df) : \E r2 \in Range(df2) :
          /\ r.id = r2.id /\ r.note # r2.note /\ r.checkin_time # r2.checkin_time
          /\ r.date = arg[2] /\ r.rfid_tag = arg[1]
          /\ r.Count_Telat_7D = 1 /\ r.Count_Alpa_30D = 1
          /\ r.Avg_Arrival_Time_7D.num > 0

\* The removed holiday event, and the row of its entity right after it.
Removed == CHOOSE h \in Range(raw) : At(h, arg)

IsNextAfter(r, h) ==
    /\ r.rfid_tag = h.rfid_tag /\ h.date < r.date
    /\ \A y \in Prior(raw, r) : y.date <= h.date

LagOf(t, r) ==
    IF Prior(t, r) = {} THEN "alpa"
    ELSE LET p == CHOOSE y \in Prior(t, r) : IsLast(t, r, y)
         IN  IF CanonicalNote(p) = "libur" THEN "alpa" ELSE CanonicalNote(p)

\* C10 as stated: without a holiday event, the rolling counts of the later
\* rows of its entity whose windows hold its date are different.
C10_HolidayChangesCounts ==
    hist = <<"without_holiday">> =>
        \A r \in Range(df) : \A r2 \in Range(df2) :
            r.id = r2.id /\ r.rfid_tag = Removed.rfid_tag =>
                /\ InWindow(Removed, r, 7) => r.Count_Telat_7D # r2.Count_Telat_7D
                /\ InWindow(Removed, r, 30) => r.Count_Alpa_30D # r2.Count_Alpa_30D

\* C10 amended: without a holiday event every other row is still there with
\* the same rolling counts; the row right after the holiday takes its
\* Lag_1_Status from the holiday and has no streak with it, and takes its
\* Lag_1_Status from the event before the holiday without it.
C10_HolidayInLagNotCounts ==
    hist = <<"without_holiday">> =>
        /\ {r.id : r \in Range(df)} = {r2.id : r2 \in Range(df2)}
        /\ \A r \in Range(df) : \A r2 \in Range(df2) :
              r.id = r2.id =>
                  /\ r.Count_Telat_7D = r2.Count_Telat_7D
                  /\ r.Count_Alpa_30D = r2.Count_Alpa_30D
                  /\ IsNextAfter(r, Removed) =>
                        /\ r.Lag_1_Status = LagOf(raw, r)
                        /\ r.Streak_Telat = 0
                        /\ r2.Lag_1_Status = LagOf(raw2, r2)

\* A holiday between a late event and a row, inside the row's windows: the
\* row's lag is 'alpa' with the holiday and 'telat' without it.
C10_Witness ==
    /\ hist = <<"without_holiday">>
    /\ \E r \in Range(df) : \E r2 \in Range(df2) :
          /\ r.id = r2.id /\ IsNextAfter(r, Removed)
          /\ InWindow(Removed, r, 7)
          /\ r.Count_Telat_7D = r2.Count_Telat_7D
          /\ r.Lag_1_Status = "alpa" /\ r2.Lag_1_Status = "telat"

LastStage == IF hist = <<>> THEN "none" ELSE hist[Len(hist)]

\* The rows of the gate's input with a valid check-in, in table order: the
\* rows the model labels, one label each.
Scored(t) == SelectSeq(t, LAMBDA r : ToDatetime(r.checkin_time) # NaT)

Anomalous(t, preds) == {Scored(t)[i] : i \in {j \in DOMAIN Scored(t) : preds[j] = -1}}

\* C7: the gate's output is its input without exactly the rows labeled
\* anomalous, in the same order and with the same columns and values; rows
\* without a valid check-in stay; a table without any comes back unchanged.
C7_GateFrame ==
    LastStage = "gate" =>
        /\ df = SelectSeq(prev, LAMBDA r : r \notin Anomalous(prev, arg))
        /\ \A r \in Range(prev) : ToDatetime(r.checkin_time) = NaT => r \in Range(df)
        /\ \A r \in Range(df) :
              DOMAIN r = Columns(prev) /\ "_duration_hours" \notin DOMAIN r
                  /\ "_arrival_hour" \notin DOMAIN r
        /\ Scored(prev) = <<>> => df = prev

\* The gate after the engine, dropping a labeled row and keeping a scored
\* row and a row without a check-in.
C7_Witness ==
    /\ hist = <<"features", "gate">>
    /\ Len(df) = 2 /\ Len(prev) = 3
    /\ \E r \in Range(df) : r.checkin_time = NaT
    /\ \E r \in Range(df) : r.checkin_time # NaT

\* The unrounded presence rate of a tag is below the threshold.
RateBelow(t, tag, threshold) ==
    total_hadir(t, tag) * 100000 < threshold * total_records(t, tag)

\* C8: the filter removes all events of exactly the entities whose presence
\* rate is below the threshold, and keeps the events of the others.
C8_FilterByUnroundedRate ==
    LastStage = "filter" =>
        df = SelectSeq(prev, LAMBDA r : ~RateBelow(prev, r.rfid_tag, arg[1]))

(* --------------------------- specification ---------------------------- *)

Init ==
    /\ \E S \in SUBSET Slots :
          /\ Cardinality(S) <= MaxEvents
          /\ \E f \in [S -> EventKinds] : raw = MkLog(f)
    /\ df = raw
    /\ prev = <<>>
    /\ hist = <<>>
    /\ arg = <<>>
    /\ raw2 = <<>>
    /\ df2 = <<>>

\* df = add_temporal_and_lag_features(df)
AddFeatures ==
    /\ Len(hist) < 2
    /\ prev' = df
    /\ df' = add_temporal_and_lag_features(df)
    /\ hist' = Append(hist, "features")
    /\ UNCHANGED <<raw, arg, raw2, df2>>

Next == AddFeatures

Spec == Init /\ [][Next]_vars

(* ----------------- two runs, on a log and a changed log --------------- *)

InitPair ==
    /\ \E S \in SUBSET PairSlots :
          /\ Cardinality(S) <= MaxPairEvents
          /\ \E f \in [S -> PairKinds] : raw = MkLog(f)
    /\ df = raw
    /\ prev = <<>>
    /\ hist = <<>>
    /\ arg = <<>>
    /\ raw2 = raw
    /\ df2 = raw

\* Both runs, the second on the log with one event changed, added or removed.
RunPerturbed ==
    /\ hist = <<>>
    /\ \E slot \in PairSlots :
          /\ \/ \E kind \in PairKinds : raw2' = WithEvent(raw, slot, kind)
             \/ raw2' = WithoutEvent(raw, slot)
          /\ raw2' # raw
          /\ arg' = slot
    /\ prev' = df
    /\ df' = add_temporal_and_lag_features(raw)
    /\ df2' = add_temporal_and_lag_features(raw2')
    /\ hist' = <<"perturbed">>
    /\ UNCHANGED raw

\* Both runs, the second on the log without one of its holiday events.
RunWithoutHoliday ==
    /\ hist = <<>>
    /\ \E h \in Range(raw) :
          /\ IsHolidayRow(h)
          /\ raw2' = WithoutEvent(raw, <<h.rfid_tag, h.date>>)
          /\ arg' = <<h.rfid_tag, h.date>>
    /\ prev' = df
    /\ df' = add_temporal_and_lag_features(raw)
    /\ df2' = add_temporal_and_lag_features(raw2')
    /\ hist' = <<"without_holiday">>
    /\ UNCHANGED raw

NextPair == RunPerturbed \/ RunWithoutHoliday

SpecPair == InitPair /\ [][NextPair]_vars

(* --------------- the cleaning stages, around the engine --------------- *)

MaxCleanEvents == 3

CleanSlots == Tags \X {0, 1, 8}

CleanKinds == {k \in EventKinds : k.note \in {NoteNA, "", "telat"}}

\* threshold_pct, in thousandths of a percent: the default 10.0, and values
\* next to one and two thirds.
Thresholds == {10000, 33333, 66670}

InitClean ==
    /\ \E S \in SUBSET CleanSlots :
          /\ Cardinality(S) <= MaxCleanEvents
          /\ \E f \in [S -> CleanKinds] : raw = MkLog(f)
    /\ df = raw
    /\ prev = <<>>
    /\ hist = <<>>
    /\ arg = <<>>
    /\ raw2 = <<>>
    /\ df2 = <<>>

\* df = add_temporal_and_lag_features(df), as the first stage.
Engineer ==
    /\ hist = <<>>
    /\ prev' = df
    /\ df' = add_temporal_and_lag_features(df)
    /\ hist' = Append(hist, "features")
    /\ arg' = <<>>
    /\ UNCHANGED <<raw, raw2, df2>>

\* df = apply_anomaly_detection(df), for any labels the model returns.
ApplyAnomalyDetection ==
    /\ Len(hist) < 2
    /\ "gate" \notin Range(hist)
    /\ \E preds \in Labelings(df) :
          /\ df' = apply_anomaly_detection(df, preds)
          /\ arg' = preds
    /\ prev' = df
    /\ hist' = Append(hist, "gate")
    /\ UNCHANGED <<raw, raw2, df2>>

\* df = remove_low_attendance_students(df, threshold_pct)
RemoveLowAttendance ==
    /\ Len(hist) < 2
    /\ "filter" \notin Range(hist)
    /\ \E threshold \in Thresholds :
          /\ df' = remove_low_attendance_students(df, threshold)
          /\ arg' = <<threshold>>
    /\ prev' = df
    /\ hist' = Append(hist, "filter")
    /\ UNCHANGED <<raw, raw2, df2>>

NextClean == Engineer \/ ApplyAnomalyDetection \/ RemoveLowAttendance

SpecClean == InitClean /\ [][NextClean]_vars

====
